---- MODULE Spec2Model ----
(***************************************************************************)
(* Emotion-aware chat session of src/app/main.py: the Streamlit script     *)
(* (main -> render_chat_page -> render_sidebar -> render_chat_area), the   *)
(* text and audio turns, and the pure helpers get_emotion_from_gpt,        *)
(* process_audio and process_recorded_audio.                               *)
(*                                                                         *)
(* Python strings are sequences of tokens (a word or one whitespace        *)
(* character), so that strip(), concatenation and comparison are computed. *)
(* An optional value (None, or a key absent from st.session_state) is a    *)
(* sequence of length at most one: None is <<>>, a value x is <<x>>.       *)
(***************************************************************************)
EXTENDS Integers, Sequences, FiniteSets, TLC

VARIABLES
    session_state,  \* st.session_state: the keys main.py reads and writes
    query_params,   \* st.query_params: page and persona
    widgets,        \* values the widgets deliver to the current run
    pc,             \* position of the script run
    turns,          \* completed turns since the session state was last built
    last_turn,      \* the last completed turn of this session state, if any
    observed,       \* what the last step of the run did, and the state before it
    call,           \* a call of a pure helper: its arguments and its result
    calls,          \* the calls of process_recorded_audio in flight, step by step
    files           \* the temp_audio_*.wav files of the working directory

vars == <<session_state, query_params, widgets, pc, turns, last_turn, observed, call,
          calls, files>>

None == <<>>
Some(x) == <<x>>

----------------------------------------------------------------------------
(* Bounds of the model *)

\* completed turns kept in one message history
MaxTurns == 2
\* samples per channel of a waveform given to process_audio
MaxLen == 5
\* tokens of a language-model reply
MaxReplyLen == 3
\* largest value of a statistics counter given to update_conversation_stats
MaxCount == 3
\* target_length of process_audio (16000 in the code), scaled down
TargetLength == 2

----------------------------------------------------------------------------
(* Constants of src/app/constants.py and the literals of main.py *)

EMOTIONS ==
    {<<"Anger">>, <<"Disgust">>, <<"Fear">>, <<"Happy">>, <<"Neutral">>, <<"Sad">>}

DEFAULT_EMOTION == <<"Neutral">>

positive_emotions == {<<"Happy">>}

negative_emotions == {<<"Anger">>, <<"Disgust">>, <<"Fear">>, <<"Sad">>}

languages == <<"ko-KR", "en-US">>

\* os.path.getsize(temp_wav) < 100
MinAudioSize == 100

DEFAULT_PERSONA == "P1"

\* URL names of personas: one of the mapping, one unknown to it
PersonaUrls == {"u2", "ux"}

PERSONA_NAME_MAPPING(url) ==
    CASE url = "u1" -> Some("P1")
      [] url = "u2" -> Some("P2")
      [] OTHER -> None

----------------------------------------------------------------------------
(* str.strip() *)

IsSpace(t) == t \in {" ", "\n"}

RECURSIVE lstrip(_)
lstrip(s) == IF s # <<>> /\ IsSpace(Head(s)) THEN lstrip(Tail(s)) ELSE s

RECURSIVE rstrip(_)
rstrip(s) ==
    IF s # <<>> /\ IsSpace(s[Len(s)]) THEN rstrip(SubSeq(s, 1, Len(s) - 1)) ELSE s

strip(s) == rstrip(lstrip(s))

----------------------------------------------------------------------------
(* get_emotion_from_gpt: llm is the outcome of llm.invoke, either raised   *)
(* or a reply with its content.  The result is raised, or the label.       *)

\* variant: the reply is compared without strip()
get_emotion_from_gpt_unstripped(llm) ==
    IF llm.raised
    THEN [raised |-> TRUE, value |-> <<>>]
    ELSE [raised |-> FALSE,
          value |-> IF llm.content \notin EMOTIONS THEN DEFAULT_EMOTION
                    ELSE llm.content]

get_emotion_from_gpt(llm) ==
    IF llm.raised
    THEN [raised |-> TRUE, value |-> <<>>]
    ELSE LET predefined_emotions == EMOTIONS
             detected_emotion == strip(llm.content)
         IN  [raised |-> FALSE,
              value |-> IF detected_emotion \notin predefined_emotions
                        THEN DEFAULT_EMOTION
                        ELSE detected_emotion]

----------------------------------------------------------------------------
(* process_audio: a waveform is a sequence of channels, each a sequence of *)
(* samples of the same length (shape[0] channels, shape[1] samples).       *)

shape0(waveform) == Len(waveform)

shape1(waveform) == Len(waveform[1])

RECURSIVE SumAt(_, _, _)
SumAt(waveform, c, i) ==
    IF c = 0 THEN 0 ELSE waveform[c][i] + SumAt(waveform, c - 1, i)

\* torch.mean(waveform, dim=0, keepdim=True); the samples of the model are
\* multiples of the channel count, so the mean is exact
mean_dim0(waveform) ==
    << [i \in 1..shape1(waveform) |->
            SumAt(waveform, shape0(waveform), i) \div shape0(waveform)] >>

\* torch.nn.functional.pad(waveform, (0, padding_length))
pad_right(waveform, padding_length) ==
    [c \in 1..shape0(waveform) |->
        waveform[c] \o [i \in 1..padding_length |-> 0]]

\* waveform[:, start:start + target_length]
slice(waveform, start, stop) ==
    [c \in 1..shape0(waveform) |-> SubSeq(waveform[c], start + 1, stop)]

\* variant: a longer input is truncated from the start
process_audio_truncate(waveform, target_length) ==
    LET w1 == IF shape0(waveform) > 1 THEN mean_dim0(waveform) ELSE waveform
    IN  IF shape1(w1) < target_length
        THEN pad_right(w1, target_length - shape1(w1))
        ELSE slice(w1, 0, target_length)

process_audio(waveform, target_length) ==
    LET w1 == IF shape0(waveform) > 1 THEN mean_dim0(waveform) ELSE waveform
    IN  IF shape1(w1) < target_length
        THEN LET padding_length == target_length - shape1(w1)
             IN  pad_right(w1, padding_length)
        ELSE LET start == (shape1(w1) - target_length) \div 2
             IN  slice(w1, start, start + target_length)

----------------------------------------------------------------------------
(* process_recorded_audio.  audio_bytes is a record [id, size]; env holds   *)
(* the outcomes of the collaborators during the call: write_ok (the temp   *)
(* file is written), readable (sr.AudioFile and r.record succeed),         *)
(* outcomes (one outcome of r.recognize_google per language) and llm (the  *)
(* outcome of llm.invoke).  The result holds the returned pair (text,      *)
(* emotion) and what the call did: the languages attempted in order, the   *)
(* language that produced the transcript, and the language-model calls.    *)
(* exception is the exception that leaves the call, if any.                *)

Truthy(opt) == opt # None /\ opt[1] # <<>>

NoTranscript(attempts, llm_calls) ==
    [text |-> None, emotion |-> None, attempts |-> attempts,
     language |-> None, llm_calls |-> llm_calls, exception |-> None]

\* an exception raised inside the try block of lines 177-246
Raise(kind, attempts, llm_calls) ==
    [text |-> None, emotion |-> None, attempts |-> attempts,
     language |-> None, llm_calls |-> llm_calls, exception |-> Some(kind)]

\* variant: a service error of the recognizer is not caught in the loop
RECURSIVE recognize_request_fatal(_, _, _, _)
recognize_request_fatal(i, text, attempts, outcomes) ==
    IF i > Len(languages)
    THEN [raised |-> FALSE, text |-> text, attempts |-> attempts, language |-> None]
    ELSE LET o == outcomes[i]
             att == Append(attempts, languages[i])
         IN  CASE o.kind = "text" ->
                    IF o.text # <<>>
                    THEN [raised |-> FALSE, text |-> Some(o.text), attempts |-> att,
                          language |-> Some(languages[i])]
                    ELSE recognize_request_fatal(i + 1, Some(o.text), att, outcomes)
               [] o.kind = "UnknownValueError" ->
                    recognize_request_fatal(i + 1, text, att, outcomes)
               [] OTHER ->
                    [raised |-> TRUE, text |-> text, attempts |-> att, language |-> None]

\* variant: the loop without the break of line 229
RECURSIVE recognize_all(_, _, _, _)
recognize_all(i, text, attempts, outcomes) ==
    IF i > Len(languages)
    THEN [raised |-> FALSE, text |-> text, attempts |-> attempts, language |-> None]
    ELSE LET o == outcomes[i]
             att == Append(attempts, languages[i])
         IN  CASE o.kind = "text" -> recognize_all(i + 1, Some(o.text), att, outcomes)
               [] o.kind \in {"UnknownValueError", "RequestError"} ->
                    recognize_all(i + 1, text, att, outcomes)
               [] OTHER ->
                    [raised |-> TRUE, text |-> text, attempts |-> att, language |-> None]

\* the for loop of lines 219-235 from language i on
RECURSIVE recognize(_, _, _, _)
recognize(i, text, attempts, outcomes) ==
    IF i > Len(languages)
    THEN [raised |-> FALSE, text |-> text, attempts |-> attempts, language |-> None]
    ELSE LET o == outcomes[i]
             att == Append(attempts, languages[i])
         IN  CASE o.kind = "text" ->
                    IF o.text # <<>>
                    THEN [raised |-> FALSE, text |-> Some(o.text), attempts |-> att,
                          language |-> Some(languages[i])]
                    ELSE recognize(i + 1, Some(o.text), att, outcomes)
               [] o.kind \in {"UnknownValueError", "RequestError"} ->
                    recognize(i + 1, text, att, outcomes)
               [] OTHER ->
                    [raised |-> TRUE, text |-> text, attempts |-> att, language |-> None]

\* lines 202-246: the temp file is read, recognized and the transcript
\* classified
recognize_file(env) ==
    IF ~env.readable THEN Raise("Exception", <<>>, 0)
    ELSE LET r == recognize(1, None, <<>>, env.outcomes)
         IN  IF r.raised THEN Raise("Exception", r.attempts, 0)
             ELSE IF ~Truthy(r.text) THEN NoTranscript(r.attempts, 0)
             ELSE LET emotion == get_emotion_from_gpt(env.llm)
                  IN  IF emotion.raised THEN Raise("Exception", r.attempts, 1)
                      ELSE [text |-> r.text, emotion |-> Some(emotion.value),
                            attempts |-> r.attempts, language |-> r.language,
                            llm_calls |-> 1, exception |-> None]

\* the except clause of lines 248-252 turns every exception into (None, None)
except_clause(r) ==
    IF r.exception # None THEN NoTranscript(r.attempts, r.llm_calls) ELSE r

\* variant: the audio data is not validated before it is recognized
try_block_unvalidated(audio_bytes, env) ==
    IF ~env.write_ok THEN NoTranscript(<<>>, 0)
    ELSE recognize_file(env)

\* the try block of lines 177-246
try_block(audio_bytes, env) ==
    IF audio_bytes.size = 0 THEN NoTranscript(<<>>, 0)
    ELSE IF ~env.write_ok THEN NoTranscript(<<>>, 0)
    ELSE IF audio_bytes.size < MinAudioSize THEN NoTranscript(<<>>, 0)
    ELSE recognize_file(env)

process_recorded_audio(audio_bytes, env) ==
    except_clause(try_block(audio_bytes, env))

\* variant: the finally block leaves the temp file
finally_block_keep(fs, temp_wav, remove_ok) == fs

\* the finally block of lines 254-261 on the files fs: the file is removed
\* when it exists, unless os.remove fails
finally_block(fs, temp_wav, remove_ok) ==
    IF temp_wav # None /\ fs[temp_wav[1]] # None /\ remove_ok
    THEN [fs EXCEPT ![temp_wav[1]] = None]
    ELSE fs

----------------------------------------------------------------------------
(* st.session_state.  A key that is absent is None for the optional        *)
(* fields; messages, initialized, processed_audio and need_rerun are read  *)
(* only through defaults ([] and False), so an absent key is its default.  *)
(* The timestamp of a message is display text and is left out.             *)

ZeroStats == [total |-> 0, positive |-> 0, negative |-> 0]

EmptySession ==
    [initialized |-> FALSE, selected_persona |-> None, messages |-> <<>>,
     conversation_stats |-> None, current_emotion |-> None, last_message |-> None,
     audio_bytes |-> None, processed_audio |-> FALSE, need_rerun |-> FALSE]

\* src/utils/state_management.py
clear_session_state(ss) == EmptySession

initialize_session_state(ss, persona) ==
    [ss EXCEPT !.initialized = TRUE,
               !.selected_persona = Some(persona),
               !.messages = <<>>,
               !.conversation_stats = Some(ZeroStats),
               !.current_emotion = Some(DEFAULT_EMOTION)]

ensure_state_initialization(ss) ==
    [ss EXCEPT !.current_emotion = IF @ = None THEN Some(DEFAULT_EMOTION) ELSE @,
               !.conversation_stats = IF @ = None THEN Some(ZeroStats) ELSE @]

add_chat_message(ss, role, content, emotion) ==
    LET message == [role |-> role, content |-> content,
                    emotion |-> IF Truthy(emotion) THEN emotion ELSE None]
    IN  [ss EXCEPT !.messages = Append(@, message)]

\* variant: total is not incremented
update_conversation_stats_no_total(ss, emotion) ==
    LET stats == IF ss.conversation_stats = None THEN ZeroStats
                 ELSE ss.conversation_stats[1]
    IN  [ss EXCEPT !.conversation_stats = Some(
            [total |-> stats.total,
             positive |-> stats.positive + IF emotion \in positive_emotions THEN 1 ELSE 0,
             negative |-> stats.negative + IF emotion \in negative_emotions THEN 1 ELSE 0])]

\* variant: every label that is not positive counts as negative
update_conversation_stats_else_negative(ss, emotion) ==
    LET stats == IF ss.conversation_stats = None THEN ZeroStats
                 ELSE ss.conversation_stats[1]
        total == stats.total + 1
    IN  [ss EXCEPT !.conversation_stats = Some(
            IF emotion \in positive_emotions
            THEN [total |-> total, positive |-> stats.positive + 1,
                  negative |-> stats.negative]
            ELSE [total |-> total, positive |-> stats.positive,
                  negative |-> stats.negative + 1])]

update_conversation_stats(ss, emotion) ==
    LET stats == IF ss.conversation_stats = None THEN ZeroStats
                 ELSE ss.conversation_stats[1]
        total == stats.total + 1
    IN  [ss EXCEPT !.conversation_stats = Some(
            IF emotion \in positive_emotions
            THEN [total |-> total, positive |-> stats.positive + 1,
                  negative |-> stats.negative]
            ELSE IF emotion \in negative_emotions
            THEN [total |-> total, positive |-> stats.positive,
                  negative |-> stats.negative + 1]
            ELSE [total |-> total, positive |-> stats.positive,
                  negative |-> stats.negative])]

\* llm and resp are the outcomes of llm.invoke and chatbot_service.get_response
handle_chat_message(ss, prompt, current_persona, llm, resp) ==
    LET user_emotion == get_emotion_from_gpt(llm)
    IN  IF user_emotion.raised
        THEN [raised |-> TRUE, at |-> "classification", ss |-> ss,
              user_emotion |-> <<>>, response |-> <<>>]
        ELSE LET ss1 == [ss EXCEPT !.current_emotion = Some(user_emotion.value)]
             IN  IF resp.raised
                 THEN [raised |-> TRUE, at |-> "response", ss |-> ss1,
                       user_emotion |-> <<>>, response |-> <<>>]
                 ELSE [raised |-> FALSE, at |-> "", ss |-> ss1,
                       user_emotion |-> user_emotion.value, response |-> resp.text]

----------------------------------------------------------------------------
(* render_chat_area, lines 302-345: the audio recorder.  The result is the *)
(* new session state and the event of the step.                            *)

\* the prefix of f"[..] {audio_text}" (line 325)
VoicePrefix == <<"[voice]", " ">>

\* variant: the statistics are updated before the transcript is tested
audio_section_count_first(ss, new_audio_bytes, env, resp) ==
    IF new_audio_bytes = None
    THEN [ss |-> ss, event |-> "audio_absent", input |-> <<>>]
    ELSE IF ~(new_audio_bytes # ss.audio_bytes /\ ~ss.processed_audio)
    THEN [ss |-> ss, event |-> "audio_skipped", input |-> <<>>]
    ELSE
    LET r == process_recorded_audio(new_audio_bytes[1], env)
        counted == update_conversation_stats(ss, DEFAULT_EMOTION)
    IN  IF Truthy(r.text) /\ Truthy(r.emotion) /\ ~resp.raised
        THEN LET ss3 == add_chat_message(counted, "user",
                            VoicePrefix \o r.text[1], r.emotion)
                 ss4 == add_chat_message(ss3, "assistant", resp.text, None)
             IN  [ss |-> [ss4 EXCEPT !.current_emotion = r.emotion,
                                     !.last_message = r.text, !.need_rerun = TRUE],
                  event |-> "audio_turn", input |-> r.text[1]]
        ELSE [ss |-> counted,
              event |-> IF Truthy(r.text) THEN "audio_response_failed"
                        ELSE IF r.llm_calls > 0 THEN "audio_classification_failed"
                        ELSE "audio_no_transcript",
              input |-> <<>>]

audio_section(ss, new_audio_bytes, env, resp) ==
    IF new_audio_bytes = None
    THEN [ss |-> ss, event |-> "audio_absent", input |-> <<>>]
    ELSE IF ~(new_audio_bytes # ss.audio_bytes /\ ~ss.processed_audio)
    THEN [ss |-> ss, event |-> "audio_skipped", input |-> <<>>]
    ELSE
    LET ss1 == [ss EXCEPT !.audio_bytes = new_audio_bytes, !.processed_audio = TRUE]
        r == process_recorded_audio(new_audio_bytes[1], env)
        audio_text == r.text
        audio_emotion == r.emotion
        reset(x) == [x EXCEPT !.processed_audio = FALSE, !.audio_bytes = None]
    IN  IF Truthy(audio_text) /\ Truthy(audio_emotion)
        THEN IF resp.raised
             THEN [ss |-> reset(ss1), event |-> "audio_response_failed", input |-> <<>>]
             ELSE LET ss2 == update_conversation_stats(ss1, audio_emotion[1])
                      ss3 == add_chat_message(ss2, "user",
                                 VoicePrefix \o audio_text[1], audio_emotion)
                      ss4 == add_chat_message(ss3, "assistant", resp.text, None)
                      ss5 == [ss4 EXCEPT !.current_emotion = audio_emotion,
                                         !.last_message = audio_text]
                      ss6 == [reset(ss5) EXCEPT !.need_rerun = TRUE]
                  IN  [ss |-> ss6, event |-> "audio_turn", input |-> audio_text[1]]
        ELSE [ss |-> reset(ss1),
              event |-> IF r.llm_calls > 0 THEN "audio_classification_failed"
                        ELSE "audio_no_transcript",
              input |-> <<>>]

(* render_chat_area, lines 350-362: the text box *)

\* variant: the condition of line 351 without the last_message comparison
text_section_unguarded(ss, chat_input, send_clicked, llm, resp) ==
    IF (send_clicked \/ chat_input # <<>>) /\ strip(chat_input) # <<>>
    THEN LET h == handle_chat_message(ss, chat_input, ss.selected_persona, llm, resp)
         IN  IF h.raised
             THEN [ss |-> h.ss, event |-> "text_failed", input |-> <<>>]
             ELSE LET ss2 == update_conversation_stats(h.ss, h.user_emotion)
                      ss3 == add_chat_message(ss2, "user", chat_input,
                                              Some(h.user_emotion))
                      ss4 == add_chat_message(ss3, "assistant", h.response, None)
                  IN  [ss |-> [ss4 EXCEPT !.current_emotion = Some(h.user_emotion),
                                          !.last_message = Some(chat_input),
                                          !.need_rerun = TRUE],
                       event |-> "text_turn", input |-> chat_input]
    ELSE [ss |-> ss, event |-> "text_skipped", input |-> <<>>]

text_section(ss, chat_input, send_clicked, llm, resp) ==
    IF (send_clicked \/ chat_input # <<>>) /\ strip(chat_input) # <<>>
       /\ Some(chat_input) # ss.last_message
    THEN LET current_persona == ss.selected_persona
             h == handle_chat_message(ss, chat_input, current_persona, llm, resp)
         IN  IF h.raised
             THEN [ss |-> h.ss,
                   event |-> IF h.at = "classification"
                             THEN "text_classification_failed"
                             ELSE "text_response_failed",
                   input |-> <<>>]
             ELSE LET ss2 == update_conversation_stats(h.ss, h.user_emotion)
                      ss3 == add_chat_message(ss2, "user", chat_input,
                                              Some(h.user_emotion))
                      ss4 == add_chat_message(ss3, "assistant", h.response, None)
                  IN  [ss |-> [ss4 EXCEPT !.current_emotion = Some(h.user_emotion),
                                          !.last_message = Some(chat_input),
                                          !.need_rerun = TRUE],
                       event |-> "text_turn", input |-> chat_input]
    ELSE [ss |-> ss, event |-> "text_skipped", input |-> <<>>]

(* render_chat_page, lines 384-398: the lifecycle block *)

\* variant: the session state is rebuilt on every run
lifecycle_always(ss, selected_persona) ==
    LET old_messages == ss.messages
        ss1 == clear_session_state(ss)
        ss2 == initialize_session_state(ss1, selected_persona)
    IN  IF old_messages # <<>> /\ ss2.selected_persona = Some(selected_persona)
        THEN [ss2 EXCEPT !.messages = old_messages]
        ELSE ss2

lifecycle(ss, selected_persona) ==
    IF ~ss.initialized \/ ss.selected_persona # Some(selected_persona)
    THEN LET old_messages == ss.messages
             ss1 == clear_session_state(ss)
             ss2 == initialize_session_state(ss1, selected_persona)
         IN  IF old_messages # <<>> /\ ss2.selected_persona = Some(selected_persona)
             THEN [ss2 EXCEPT !.messages = old_messages]
             ELSE ss2
    ELSE ss

----------------------------------------------------------------------------
(* Inputs of the model *)

Texts == {<<"a">>, <<"b">>}

ChatInputs == {<<>>, <<" ">>} \cup Texts

Audios == {[id |-> 0, size |-> 0], [id |-> 1, size |-> 50], [id |-> 2, size |-> 200]}

\* the recordings of the session: an empty buffer and a plausible one
SessionAudios == {a \in Audios : a.size = 0 \/ a.size >= MinAudioSize}

SpeechOutcomes ==
    {[kind |-> "text", text |-> t] : t \in {<<>>} \cup Texts}
    \cup {[kind |-> k, text |-> <<>>] :
            k \in {"UnknownValueError", "RequestError", "Exception"}}

Raised == [raised |-> TRUE, content |-> <<>>]

Reply(c) == [raised |-> FALSE, content |-> c]

\* replies of the language model in the session: a positive and a negative
\* label for typed text, a word outside the labels for a transcript
TextReplies == {<<"Happy">>, <<"Sad", "\n">>}

AudioReplies == {<<"Excited">>}

TextLlm == {Raised} \cup {Reply(c) : c \in TextReplies}

LlmOutcomes == {Raised} \cup {Reply(c) : c \in TextReplies \cup AudioReplies}

RespOutcomes == {[raised |-> TRUE, text |-> <<>>], [raised |-> FALSE, text |-> <<"reply">>]}

Envs ==
    [write_ok : BOOLEAN, readable : BOOLEAN,
     outcomes : [1..Len(languages) -> SpeechOutcomes], llm : LlmOutcomes]

\* the collaborators' outcomes during an audio turn of the session: at most
\* one of the file steps fails, and the only transcript is "a"
SessionEnvs ==
    {env \in Envs :
        /\ env.write_ok \/ env.readable
        /\ env.llm \in {Raised} \cup {Reply(c) : c \in AudioReplies}
        /\ ~(env.write_ok /\ env.readable) =>
                /\ env.llm = Raised
                /\ \A i \in 1..Len(languages) : env.outcomes[i].kind = "UnknownValueError"
        /\ \A i \in 1..Len(languages) :
                /\ env.outcomes[i].kind \in {"text", "UnknownValueError"}
                /\ env.outcomes[i].text \in {<<>>, <<"a">>}}

InitWidgets ==
    [chat_input |-> <<>>, send_clicked |-> FALSE, new_audio_bytes |-> None,
     home_clicked |-> FALSE]

NoStep == [event |-> "start", input |-> <<>>, pre |-> EmptySession, prev_turn |-> None]

NoCall == [fn |-> "none", args |-> <<>>, done |-> FALSE, ret |-> <<>>]

\* the sessions of the process that submit recordings
Callers == {1, 2}

\* values of datetime.now().strftime("%Y%m%d_%H%M%S"): two seconds of one day
Timestamps == {"20240101_120000", "20240101_120001"}

\* temp_wav = f"temp_audio_{timestamp}.wav": a file is named by its timestamp
NoFiles == [t \in Timestamps |-> None]

\* a caller with no call in flight
IdleCall ==
    [pc |-> "idle", audio_bytes |-> None, temp_wav |-> None, created |-> FALSE,
     audio_data |-> None, remove_failed |-> FALSE, ret |-> None]

NoCalls == [p \in Callers |-> IdleCall]

Observe(event, input) ==
    [event |-> event, input |-> input, pre |-> session_state, prev_turn |-> last_turn]

----------------------------------------------------------------------------
(* The session: one script run per user event or st.rerun() *)

Init ==
    /\ session_state = EmptySession
    /\ query_params = [page |-> "home", persona |-> None]
    /\ widgets = InitWidgets
    /\ pc = "idle"
    /\ turns = 0
    /\ last_turn = None
    /\ observed = NoStep
    /\ call = NoCall
    /\ calls = NoCalls
    /\ files = NoFiles

Released == [widgets EXCEPT !.send_clicked = FALSE, !.home_clicked = FALSE]

StartRun(w, q) ==
    /\ pc = "idle"
    /\ widgets' = w
    /\ query_params' = q
    /\ pc' = "main"
    /\ observed' = Observe("event", <<>>)
    /\ UNCHANGED <<session_state, turns, last_turn, call, calls, files>>

\* the user picks a persona on the home page, or edits the URL
Navigate ==
    \E persona \in {None} \cup {Some(u) : u \in PersonaUrls} :
        StartRun(Released, [page |-> "chat", persona |-> persona])

TypeText ==
    /\ query_params.page = "chat"
    /\ \E t \in ChatInputs : StartRun([Released EXCEPT !.chat_input = t], query_params)

ClickSend ==
    /\ query_params.page = "chat"
    /\ StartRun([Released EXCEPT !.send_clicked = TRUE], query_params)

RecordAudio ==
    /\ query_params.page = "chat"
    /\ \E a \in SessionAudios :
           StartRun([Released EXCEPT !.new_audio_bytes = Some(a)], query_params)

ClickHome ==
    /\ query_params.page = "chat"
    /\ StartRun([Released EXCEPT !.home_clicked = TRUE], query_params)

\* a forced refresh: the script runs again with unchanged inputs
Refresh == StartRun(Released, query_params)

\* main, lines 456-463: any page but "chat" renders the home page
RenderHome ==
    /\ pc = "main"
    /\ query_params.page # "chat"
    /\ pc' = "idle"
    /\ widgets' = InitWidgets
    /\ observed' = Observe("home", <<>>)
    /\ UNCHANGED <<session_state, query_params, turns, last_turn, call, calls, files>>

\* render_chat_page, lines 373-379
RedirectHome ==
    /\ pc = "main"
    /\ query_params.page = "chat"
    /\ query_params.persona = None
    /\ query_params' = [query_params EXCEPT !.page = "home"]
    /\ pc' = "main"
    /\ widgets' = Released
    /\ observed' = Observe("redirect", <<>>)
    /\ UNCHANGED <<session_state, turns, last_turn, call, calls, files>>

\* render_chat_page, lines 382-402
RenderChatPage ==
    /\ pc = "main"
    /\ query_params.page = "chat"
    /\ query_params.persona # None
    /\ LET persona_url == query_params.persona[1]
           mapped == PERSONA_NAME_MAPPING(persona_url)
           selected_persona == IF mapped = None THEN DEFAULT_PERSONA ELSE mapped[1]
           rebuilt == ~session_state.initialized
                      \/ session_state.selected_persona # Some(selected_persona)
       IN  /\ session_state' = lifecycle(session_state, selected_persona)
           /\ turns' = IF rebuilt THEN 0 ELSE turns
           /\ last_turn' = IF rebuilt THEN None ELSE last_turn
           /\ observed' = Observe(IF ~rebuilt THEN "kept"
                                  ELSE IF session_state.initialized THEN "switched"
                                  ELSE "initialized", <<>>)
    /\ pc' = "sidebar"
    /\ UNCHANGED <<query_params, widgets, call, calls, files>>

\* render_sidebar, lines 413-425: the button that leaves the persona
Teardown ==
    /\ pc = "sidebar"
    /\ widgets.home_clicked
    /\ session_state' = EmptySession
    /\ query_params' = [page |-> "home", persona |-> None]
    /\ widgets' = InitWidgets
    /\ turns' = 0
    /\ last_turn' = None
    /\ pc' = "main"
    /\ observed' = Observe("teardown", <<>>)
    /\ UNCHANGED <<call, calls, files>>

\* render_sidebar, lines 427-443
RenderSidebar ==
    /\ pc = "sidebar"
    /\ ~widgets.home_clicked
    /\ session_state' = ensure_state_initialization(session_state)
    /\ pc' = "audio"
    /\ observed' = Observe("sidebar", <<>>)
    /\ UNCHANGED <<query_params, widgets, turns, last_turn, call, calls, files>>

Completed(r, kind) ==
    /\ Len(r.ss.messages) <= 2 * MaxTurns
    /\ session_state' = r.ss
    /\ observed' = Observe(r.event, r.input)
    /\ IF r.event = kind
       THEN /\ turns' = turns + 1
            /\ last_turn' = Some([kind |-> kind, input |-> r.input,
                                  audio |-> IF kind = "audio_turn"
                                            THEN widgets.new_audio_bytes ELSE None])
       ELSE UNCHANGED <<turns, last_turn>>

\* render_chat_area, lines 302-345
AudioSection ==
    /\ pc = "audio"
    /\ \E r \in {audio_section(session_state, widgets.new_audio_bytes, env, resp) :
                    env \in SessionEnvs, resp \in RespOutcomes} :
           Completed(r, "audio_turn")
    /\ pc' = "text"
    /\ UNCHANGED <<query_params, widgets, call, calls, files>>

\* render_chat_area, lines 350-362
TextSection ==
    /\ pc = "text"
    /\ \E r \in {text_section(session_state, widgets.chat_input,
                                 widgets.send_clicked, llm, resp) :
                    llm \in TextLlm, resp \in RespOutcomes} :
           Completed(r, "text_turn")
    /\ pc' = "rerun"
    /\ UNCHANGED <<query_params, widgets, call, calls, files>>

\* render_chat_area, lines 364-368: st.rerun() starts the script again; the
\* text box keeps its value, the buttons are released, and the recorder
\* delivers its last recording again or nothing
Rerun ==
    /\ pc = "rerun"
    /\ session_state.need_rerun
    /\ session_state' = [session_state EXCEPT !.need_rerun = FALSE]
    /\ \E a \in {widgets.new_audio_bytes, None} :
           widgets' = [Released EXCEPT !.new_audio_bytes = a]
    /\ pc' = "main"
    /\ observed' = Observe("rerun", <<>>)
    /\ UNCHANGED <<query_params, turns, last_turn, call, calls, files>>

EndRun ==
    /\ pc = "rerun"
    /\ ~session_state.need_rerun
    /\ pc' = "idle"
    /\ widgets' = Released
    /\ observed' = Observe("end", <<>>)
    /\ UNCHANGED <<session_state, query_params, turns, last_turn, call, calls, files>>

Next ==
    \/ Navigate
    \/ TypeText
    \/ ClickSend
    \/ RecordAudio
    \/ ClickHome
    \/ Refresh
    \/ RenderHome
    \/ RedirectHome
    \/ RenderChatPage
    \/ Teardown
    \/ RenderSidebar
    \/ AudioSection
    \/ TextSection
    \/ Rerun
    \/ EndRun

Spec == Init /\ [][Next]_vars

----------------------------------------------------------------------------
(***************************************************************************)
(* The session with an unbounded number of turns, for the rerun loop. The  *)
(* history keeps its last MaxTurns turns and the counters stop at          *)
(* MaxTurns: no condition of render_chat_area reads the messages or the    *)
(* statistics (lines 305 and 351 read audio_bytes, processed_audio and     *)
(* last_message), so the runs of the script are those of the code. The     *)
(* script, once started, runs to its end: its steps are weakly fair.       *)
(***************************************************************************)

Min(a, b) == IF a < b THEN a ELSE b

Window(ss) ==
    [ss EXCEPT
        !.messages = IF Len(@) > 2 * MaxTurns
                     THEN SubSeq(@, Len(@) - 2 * MaxTurns + 1, Len(@))
                     ELSE @,
        !.conversation_stats =
            IF @ = None THEN @
            ELSE Some([total |-> Min(@[1].total, MaxTurns),
                       positive |-> Min(@[1].positive, MaxTurns),
                       negative |-> Min(@[1].negative, MaxTurns)])]

CompletedInWindow(r, kind) ==
    /\ session_state' = Window(r.ss)
    /\ observed' = Observe(r.event, r.input)
    /\ IF r.event = kind
       THEN /\ turns' = Min(turns + 1, MaxTurns)
            /\ last_turn' = Some([kind |-> kind, input |-> r.input,
                                  audio |-> IF kind = "audio_turn"
                                            THEN widgets.new_audio_bytes ELSE None])
       ELSE UNCHANGED <<turns, last_turn>>

\* render_chat_area, lines 302-345
AudioSectionLoop ==
    /\ pc = "audio"
    /\ \E r \in {audio_section(session_state, widgets.new_audio_bytes, env, resp) :
                    env \in SessionEnvs, resp \in RespOutcomes} :
           CompletedInWindow(r, "audio_turn")
    /\ pc' = "text"
    /\ UNCHANGED <<query_params, widgets, call, calls, files>>

\* render_chat_area, lines 350-362
TextSectionLoop ==
    /\ pc = "text"
    /\ \E r \in {text_section(session_state, widgets.chat_input,
                                 widgets.send_clicked, llm, resp) :
                    llm \in TextLlm, resp \in RespOutcomes} :
           CompletedInWindow(r, "text_turn")
    /\ pc' = "rerun"
    /\ UNCHANGED <<query_params, widgets, call, calls, files>>

\* the steps of the script, from the start of a run to its end
Script ==
    \/ RenderHome
    \/ RedirectHome
    \/ RenderChatPage
    \/ Teardown
    \/ RenderSidebar
    \/ AudioSectionLoop
    \/ TextSectionLoop
    \/ Rerun
    \/ EndRun

NextLoop ==
    \/ Navigate
    \/ TypeText
    \/ ClickSend
    \/ RecordAudio
    \/ ClickHome
    \/ Refresh
    \/ Script

SpecLoop == Init /\ [][NextLoop]_vars /\ WF_vars(Script)

----------------------------------------------------------------------------
(* The pure helpers, each applied once to an argument of a bounded set *)

SeqsUpTo(S, n) == UNION {[1..k -> S] : k \in 0..n}

ReplyTokens ==
    {"Anger", "Disgust", "Fear", "Happy", "Neutral", "Sad", "Excited", "happy", " ", "\n"}

AllLlm == {Raised} \cup {Reply(c) : c \in SeqsUpTo(ReplyTokens, MaxReplyLen)}

Samples == {2, 4}

Waveforms ==
    UNION {[1..channels -> [1..n -> Samples]] : channels \in {1, 2}, n \in 0..MaxLen}

InitCall(fn, Args) ==
    /\ session_state = EmptySession
    /\ query_params = [page |-> "home", persona |-> None]
    /\ widgets = InitWidgets
    /\ pc = "idle"
    /\ turns = 0
    /\ last_turn = None
    /\ observed = NoStep
    /\ \E args \in Args : call = [fn |-> fn, args |-> args, done |-> FALSE, ret |-> <<>>]
    /\ calls = NoCalls
    /\ files = NoFiles

Return(ret) ==
    /\ ~call.done
    /\ call' = [call EXCEPT !.done = TRUE, !.ret = ret]
    /\ UNCHANGED <<session_state, query_params, widgets, pc, turns, last_turn, observed,
                   calls, files>>

InitEmotion == InitCall("get_emotion_from_gpt", AllLlm)

CallEmotion ==
    /\ call.fn = "get_emotion_from_gpt"
    /\ Return(get_emotion_from_gpt(call.args))

SpecEmotion == InitEmotion /\ [][CallEmotion]_vars

InitNorm == InitCall("process_audio", Waveforms)

CallNorm ==
    /\ call.fn = "process_audio"
    /\ Return(process_audio(call.args, TargetLength))

SpecNorm == InitNorm /\ [][CallNorm]_vars

InitTranscribe ==
    InitCall("process_recorded_audio", [audio_bytes : Audios, env : Envs])

CallTranscribe ==
    /\ call.fn = "process_recorded_audio"
    /\ Return(process_recorded_audio(call.args.audio_bytes, call.args.env))

SpecTranscribe == InitTranscribe /\ [][CallTranscribe]_vars

\* the statistics a session can hold: positive and negative count disjoint
\* turns among total
StatsUpTo ==
    {st \in [total : 0..MaxCount, positive : 0..MaxCount, negative : 0..MaxCount] :
        st.positive + st.negative <= st.total}

InitStats ==
    InitCall("update_conversation_stats",
             [stats : {None} \cup {Some(st) : st \in StatsUpTo}, emotion : EMOTIONS])

CallStats ==
    /\ call.fn = "update_conversation_stats"
    /\ Return(update_conversation_stats(
                [EmptySession EXCEPT !.conversation_stats = call.args.stats],
                call.args.emotion).conversation_stats)

SpecStats == InitStats /\ [][CallStats]_vars

----------------------------------------------------------------------------
(***************************************************************************)
(* process_recorded_audio step by step, called by the sessions of one      *)
(* process: they share the working directory, and a temp file is named by  *)
(* the second in which its call began. A step is one access to the files   *)
(* together with the code around it that touches no file.                  *)
(***************************************************************************)

session_vars ==
    <<session_state, query_params, widgets, pc, turns, last_turn, observed, call>>

\* what a file holds: the caller that wrote it and the bytes written
Content(p, size) == [by |-> p, size |-> size]

NoResult == [text |-> None, emotion |-> None]

\* lines 176-185: the file name is built, empty audio returns at once
Begin(p) ==
    /\ calls[p].pc \in {"idle", "returned"}
    /\ \E audio_bytes \in Audios, timestamp \in Timestamps :
          calls' = [calls EXCEPT ![p] =
                      [IdleCall EXCEPT
                          !.pc = IF audio_bytes.size = 0 THEN "finally" ELSE "write",
                          !.audio_bytes = Some(audio_bytes),
                          !.temp_wav = Some(timestamp)]]
    /\ UNCHANGED <<session_vars, files>>

\* lines 187-190, 197-199: open(temp_wav, 'wb') truncates or creates the
\* file, then the bytes are written; either may fail
Write(p) ==
    /\ calls[p].pc = "write"
    /\ LET t == calls[p].temp_wav[1]
       IN  \E outcome \in {"written", "open_failed", "write_failed"} :
             /\ files' = CASE outcome = "written" ->
                                [files EXCEPT ![t] =
                                    Some(Content(p, calls[p].audio_bytes[1].size))]
                           [] outcome = "write_failed" ->
                                [files EXCEPT ![t] = Some(Content(p, 0))]
                           [] OTHER -> files
             /\ calls' = [calls EXCEPT
                            ![p].pc = IF outcome = "written" THEN "size" ELSE "finally",
                            ![p].created = (outcome # "open_failed")]
    /\ UNCHANGED session_vars

\* lines 193-199: os.path.getsize(temp_wav) raises when the file is gone
Size(p) ==
    /\ calls[p].pc = "size"
    /\ LET f == files[calls[p].temp_wav[1]]
       IN  calls' = [calls EXCEPT
                        ![p].pc = IF f = None \/ f[1].size < MinAudioSize
                                  THEN "finally" ELSE "read"]
    /\ UNCHANGED <<session_vars, files>>

\* lines 202-252: sr.AudioFile(temp_wav) reads what the file holds now (it
\* raises when the file is gone), then the audio is recognized and classified
Read(p) ==
    /\ calls[p].pc = "read"
    /\ LET f == files[calls[p].temp_wav[1]]
       IN  IF f = None
           THEN calls' = [calls EXCEPT ![p].pc = "finally"]
           ELSE \E r \in {except_clause(recognize_file(env)) : env \in SessionEnvs} :
                    calls' = [calls EXCEPT
                                ![p].pc = "finally",
                                ![p].audio_data = f,
                                ![p].ret = Some([text |-> r.text, emotion |-> r.emotion])]
    /\ UNCHANGED <<session_vars, files>>

\* lines 254-261, and the return of the value
Finally(p) ==
    /\ calls[p].pc = "finally"
    /\ \E remove_ok \in BOOLEAN :
          /\ files' = finally_block(files, calls[p].temp_wav, remove_ok)
          /\ calls' = [calls EXCEPT
                         ![p].pc = "returned",
                         ![p].remove_failed =
                              (files[calls[p].temp_wav[1]] # None /\ ~remove_ok),
                         ![p].ret = IF calls[p].ret = None THEN Some(NoResult)
                                    ELSE calls[p].ret]
    /\ UNCHANGED session_vars

NextFiles ==
    \E p \in Callers : Begin(p) \/ Write(p) \/ Size(p) \/ Read(p) \/ Finally(p)

SpecFiles == Init /\ [][NextFiles]_vars

----------------------------------------------------------------------------
(* Properties *)

Stats(ss) == IF ss.conversation_stats = None THEN ZeroStats ELSE ss.conversation_stats[1]

Range(seq) == {seq[i] : i \in 1..Len(seq)}

HistoryAndStatsKept ==
    /\ session_state.messages = observed.pre.messages
    /\ Stats(session_state) = Stats(observed.pre)

AfterAudioSection == pc = "text"

AfterTextSection == pc = "rerun"

\* C1: when the text box still holds the text T of the last completed turn,
\* a text turn, the text section of the next run appends no message and
\* leaves the statistics as they were.
C1_TextTurnIdempotent ==
    (/\ AfterTextSection
     /\ observed.prev_turn # None
     /\ observed.prev_turn[1].kind = "text_turn"
     /\ observed.prev_turn[1].input = widgets.chat_input)
        => HistoryAndStatsKept

C1_Witness ==
    /\ AfterTextSection
    /\ observed.event = "text_skipped"
    /\ observed.prev_turn # None
    /\ observed.prev_turn[1].kind = "text_turn"
    /\ observed.prev_turn[1].input = widgets.chat_input
    /\ strip(widgets.chat_input) # <<>>
    /\ Len(session_state.messages) = 2

\* C2: after N completed turns of a session state, total is N and
\* positive + negative is at most N.
C2_StatsCountTurns ==
    /\ Stats(session_state).total = turns
    /\ Stats(session_state).positive + Stats(session_state).negative <= turns

C2_Witness ==
    /\ turns = 2
    /\ Stats(session_state) = [total |-> 2, positive |-> 0, negative |-> 1]

\* C3: right after the lifecycle block has switched the persona, the history
\* holds none of the messages of the previous persona's conversation.
C3_SwitchDiscardsHistory ==
    observed.event = "switched" =>
        Range(session_state.messages) \cap Range(observed.pre.messages) = {}

\* C4: an audio submission that yields no transcript appends no message and
\* leaves the statistics and the current emotion as they were.
C4_FailedAudioKeepsState ==
    (/\ AfterAudioSection
     /\ observed.event \in {"audio_no_transcript", "audio_classification_failed"})
        => /\ HistoryAndStatsKept
           /\ session_state.current_emotion = observed.pre.current_emotion

C4_Witness ==
    /\ AfterAudioSection
    /\ observed.event = "audio_no_transcript"
    /\ widgets.new_audio_bytes # None
    /\ widgets.new_audio_bytes[1].size = 0
    /\ Stats(session_state).total = 1
    /\ session_state.current_emotion # Some(DEFAULT_EMOTION)

\* The call of process_recorded_audio has returned after reaching the loop
\* over the languages.
Recognized ==
    /\ call.fn = "process_recorded_audio"
    /\ call.done
    /\ call.args.audio_bytes.size >= MinAudioSize
    /\ call.args.env.write_ok
    /\ call.args.env.readable

Hit(o) == o.kind = "text" /\ o.text # <<>>

\* k is the first language with a non-empty transcript, and no language
\* before it ended with an exception the loop does not catch
FirstHit(outcomes, k) ==
    /\ Hit(outcomes[k])
    /\ \A j \in 1..(k - 1) : ~Hit(outcomes[j]) /\ outcomes[j].kind # "Exception"

\* C5 as stated: the transcript is returned paired with the language that
\* produced it.
C5_ReturnsLanguage ==
    Recognized =>
        \A k \in 1..Len(languages) :
            FirstHit(call.args.env.outcomes, k) =>
                /\ call.ret.text = Some(call.args.env.outcomes[k].text)
                /\ call.ret.emotion = Some(languages[k])

\* C5, amended: the languages are tried in list order up to the first that
\* yields a non-empty transcript and none after it; that language produced
\* the transcript, and the call returns the transcript paired with the
\* emotion label classified from it, or (None, None) when the classification
\* raises.
C5_OrderedFallback ==
    Recognized =>
        \A k \in 1..Len(languages) :
            FirstHit(call.args.env.outcomes, k) =>
                /\ call.ret.attempts = SubSeq(languages, 1, k)
                /\ IF call.args.env.llm.raised
                   THEN call.ret.text = None /\ call.ret.emotion = None
                   ELSE /\ call.ret.text = Some(call.args.env.outcomes[k].text)
                        /\ call.ret.language = Some(languages[k])
                        /\ call.ret.emotion # None
                        /\ call.ret.emotion[1] \in EMOTIONS

C5_Witness ==
    /\ Recognized
    /\ call.args.env.outcomes[1].kind = "UnknownValueError"
    /\ call.args.env.outcomes[2] = [kind |-> "text", text |-> <<"a">>]
    /\ call.ret.text = Some(<<"a">>)
    /\ call.ret.language = Some("en-US")
    /\ call.ret.attempts = <<"ko-KR", "en-US">>

\* t is s without its leading and trailing whitespace
IsTrimOf(t, s) ==
    \E i \in 0..Len(s) : \E j \in i..Len(s) :
        /\ t = SubSeq(s, i + 1, j)
        /\ \A k \in 1..i : IsSpace(s[k])
        /\ \A k \in (j + 1)..Len(s) : IsSpace(s[k])
        /\ t = <<>> \/ (~IsSpace(t[1]) /\ ~IsSpace(t[Len(t)]))

\* C6: for every reply, get_emotion_from_gpt returns the trimmed reply when
\* that is an emotion label and the default label otherwise; the result is
\* an emotion label.
C6_EmotionCoercion ==
    (call.fn = "get_emotion_from_gpt" /\ call.done /\ ~call.args.raised) =>
        /\ ~call.ret.raised
        /\ call.ret.value \in EMOTIONS
        /\ \A e \in EMOTIONS : IsTrimOf(e, call.args.content) => call.ret.value = e
        /\ (\A e \in EMOTIONS : ~IsTrimOf(e, call.args.content))
                => call.ret.value = DEFAULT_EMOTION

C6_Witness ==
    /\ call.fn = "get_emotion_from_gpt"
    /\ call.done
    /\ call.args = Reply(<<" ", "Sad", "\n">>)
    /\ call.ret.value = <<"Sad">>

\* C7: when the recorder still delivers the bytes of the last completed
\* turn, an audio turn, the audio section appends no message and leaves the
\* statistics as they were.
C7_AudioTurnIdempotent ==
    (/\ AfterAudioSection
     /\ observed.prev_turn # None
     /\ observed.prev_turn[1].kind = "audio_turn"
     /\ observed.prev_turn[1].audio = widgets.new_audio_bytes)
        => HistoryAndStatsKept

\* C8: process_audio returns one channel of exactly target_length samples:
\* the center crop of a longer input, and a shorter input followed by zeros.
C8_NormalizerLength ==
    (call.fn = "process_audio" /\ call.done) =>
        LET input == IF Len(call.args) > 1 THEN mean_dim0(call.args)[1]
                     ELSE call.args[1]
            L == Len(input)
            out == call.ret[1]
        IN  /\ Len(call.ret) = 1
            /\ Len(out) = TargetLength
            /\ L > TargetLength =>
                   \A i \in 1..TargetLength :
                       out[i] = input[(L - TargetLength) \div 2 + i]
            /\ L < TargetLength =>
                   /\ \A i \in 1..L : out[i] = input[i]
                   /\ \A i \in (L + 1)..TargetLength : out[i] = 0

C8_Witness ==
    /\ call.fn = "process_audio"
    /\ call.done
    /\ Len(call.args) = 1
    /\ Len(call.args[1]) = TargetLength + 2
    /\ call.args[1][1] # call.args[1][2]
    /\ call.ret[1] = SubSeq(call.args[1], 2, TargetLength + 1)

\* C9: a turn that fails at classification or at response generation leaves
\* the history, the statistics, the current emotion and last_message as
\* they were.
C9_NoPartialCommit ==
    observed.event \in {"text_classification_failed", "text_response_failed",
                        "audio_classification_failed", "audio_response_failed"}
        => /\ HistoryAndStatsKept
           /\ session_state.current_emotion = observed.pre.current_emotion
           /\ session_state.last_message = observed.pre.last_message

\* C10: when the language model raises during the classification of an
\* accepted text input, the turn still completes: a user and an assistant
\* message are appended and total grows by one.
C10_ClassificationNeverAborts ==
    observed.event = "text_classification_failed"
        => /\ Len(session_state.messages) = Len(observed.pre.messages) + 2
           /\ Stats(session_state).total = Stats(observed.pre).total + 1


(***************************************************************************)
(* Transcription: exhaustion and validation                                *)
(***************************************************************************)

\* the outcome of one language is a failure of that language only
Failure(o) ==
    \/ o.kind \in {"UnknownValueError", "RequestError"}
    \/ o.kind = "text" /\ o.text = <<>>

\* C11: when every language ends not understood, with a service error or
\* with an empty transcript, each language is attempted exactly once in list
\* order, and the call returns (None, None): no exception leaves it and the
\* language model is not called.
C11_ExhaustionIsAValue ==
    (Recognized /\ \A i \in 1..Len(languages) : Failure(call.args.env.outcomes[i])) =>
        /\ call.ret.attempts = languages
        /\ call.ret.text = None
        /\ call.ret.emotion = None
        /\ call.ret.exception = None
        /\ call.ret.llm_calls = 0

\* the first language ends with a service error, the last with an empty
\* transcript
C11_Witness ==
    /\ Recognized
    /\ call.args.env.outcomes[1].kind = "RequestError"
    /\ call.args.env.outcomes[Len(languages)] = [kind |-> "text", text |-> <<>>]
    /\ call.ret.attempts = languages
    /\ call.ret.text = None

Implausible ==
    /\ call.fn = "process_recorded_audio"
    /\ call.done
    /\ call.args.audio_bytes.size < MinAudioSize

NoCollaboratorCalled == call.ret.attempts = <<>> /\ call.ret.llm_calls = 0

\* C12 as stated: empty or implausibly short audio makes the call fail with
\* InvalidAudioError, and neither the recognizer nor the language model is
\* called.
C12_InvalidAudioError ==
    Implausible =>
        /\ call.ret.exception = Some("InvalidAudioError")
        /\ NoCollaboratorCalled

\* C12, amended: empty or implausibly short audio makes the call return
\* (None, None) without an exception, and neither the recognizer nor the
\* language model is called.
C12_FailFast ==
    Implausible =>
        /\ call.ret.exception = None
        /\ call.ret.text = None
        /\ call.ret.emotion = None
        /\ NoCollaboratorCalled

\* short audio that the recognizer would have understood
C12_Witness ==
    /\ Implausible
    /\ call.args.audio_bytes.size > 0
    /\ call.args.env.write_ok
    /\ call.args.env.readable
    /\ Hit(call.args.env.outcomes[1])
    /\ ~call.args.env.llm.raised
    /\ call.ret.text = None
    /\ NoCollaboratorCalled

(***************************************************************************)
(* Temporary audio files                                                   *)
(***************************************************************************)

\* the file that the returned call of p created is still there
LeftBehind(p) ==
    /\ calls[p].pc = "returned"
    /\ calls[p].created
    /\ files[calls[p].temp_wav[1]] # None
    /\ files[calls[p].temp_wav[1]][1].by = p

C14_ExclusiveTempFile ==
    \A p \in Callers :
        /\ (calls[p].created /\ calls[p].pc \in {"size", "read", "finally"}) =>
                /\ files[calls[p].temp_wav[1]] # None
                /\ files[calls[p].temp_wav[1]][1].by = p
        /\ calls[p].audio_data # None => calls[p].audio_data[1].by = p

(***************************************************************************)
(* Lifecycle and statistics                                                *)
(***************************************************************************)

AfterLifecycle == pc = "sidebar"

\* the persona that the URL of this run selects (line 382)
SelectedPersona ==
    LET mapped == PERSONA_NAME_MAPPING(query_params.persona[1])
    IN  IF mapped = None THEN DEFAULT_PERSONA ELSE mapped[1]

\* C15: when render_chat_page runs with the persona for which the session is
\* already initialized, the lifecycle step changes nothing of the session
\* state: history, statistics and current emotion are as before.
C15_SamePersonaKeepsState ==
    (/\ AfterLifecycle
     /\ observed.pre.initialized
     /\ observed.pre.selected_persona = Some(SelectedPersona)) =>
        /\ session_state.messages = observed.pre.messages
        /\ session_state.conversation_stats = observed.pre.conversation_stats
        /\ session_state.current_emotion = observed.pre.current_emotion
        /\ session_state = observed.pre

\* the session already holds a turn, and an emotion other than the default
C15_Witness ==
    /\ AfterLifecycle
    /\ observed.event = "kept"
    /\ observed.pre.selected_persona = Some(SelectedPersona)
    /\ Len(session_state.messages) = 2
    /\ Stats(session_state).total = 1
    /\ session_state.current_emotion # Some(DEFAULT_EMOTION)

Updated == call.fn = "update_conversation_stats" /\ call.done

StatsBefore == IF call.args.stats = None THEN ZeroStats ELSE call.args.stats[1]

\* C16: update_conversation_stats adds exactly 1 to total, adds exactly 1 to
\* positive iff the label is Happy, adds exactly 1 to negative iff the label
\* is Anger, Disgust, Fear or Sad, and otherwise leaves the counter as it
\* was; Neutral changes neither, and no call changes both.
C16_StatsUpdateRule ==
    Updated =>
        LET label == call.args.emotion
            after == call.ret[1]
        IN  /\ after.total = StatsBefore.total + 1
            /\ after.positive =
                  StatsBefore.positive + IF label = <<"Happy">> THEN 1 ELSE 0
            /\ after.negative =
                  StatsBefore.negative +
                  IF label \in {<<"Anger">>, <<"Disgust">>, <<"Fear">>, <<"Sad">>}
                  THEN 1 ELSE 0
            /\ label = <<"Neutral">> =>
                  /\ after.positive = StatsBefore.positive
                  /\ after.negative = StatsBefore.negative
            /\ after.positive = StatsBefore.positive
               \/ after.negative = StatsBefore.negative

\* a Neutral label on statistics that already count a turn of each kind
C16_Witness ==
    /\ Updated
    /\ call.args.emotion = <<"Neutral">>
    /\ StatsBefore = [total |-> 2, positive |-> 1, negative |-> 1]
    /\ call.ret = Some([total |-> 3, positive |-> 1, negative |-> 1])

(***************************************************************************)
(* The session state at the end of a run of render_chat_page               *)
(***************************************************************************)

\* the run has ended, with st.rerun() or without
EndOfRun == observed.event \in {"end", "rerun"}

UserMessages(messages) == {i \in 1..Len(messages) : messages[i].role = "user"}

\* C17: at the end of a run, the user messages of the history are as many as
\* conversation_stats.total, and the history holds twice as many messages,
\* alternating user then assistant.
C17_HistoryMatchesStats ==
    EndOfRun =>
        LET messages == session_state.messages
            total == Stats(session_state).total
        IN  /\ Cardinality(UserMessages(messages)) = total
            /\ Len(messages) = 2 * total
            /\ \A i \in 1..Len(messages) :
                  messages[i].role = IF i % 2 = 1 THEN "user" ELSE "assistant"

\* C18: at the end of a run whose history holds a user message,
\* current_emotion is the emotion label stored on the last user message.
C18_EmotionOfLastUserMessage ==
    (EndOfRun /\ UserMessages(session_state.messages) # {}) =>
        LET messages == session_state.messages
            last == CHOOSE i \in UserMessages(messages) :
                        \A j \in UserMessages(messages) : j <= i
        IN  session_state.current_emotion = messages[last].emotion

(***************************************************************************)
(* The rerun loop                                                          *)
(***************************************************************************)

\* C19: every run of the script is followed by a run that ends without
\* st.rerun(): while no user event occurs the widgets deliver the values they
\* hold, a run ends that way only if it processed no turn, and the script is
\* idle only after such a run.
C19_RerunLoopQuiesces == [](pc = "main" => <>(pc = "idle"))

\* the audio section of this run completed an audio turn, and the turn
\* before it was a text turn with the text T that the box holds now
StaleTextAfterAudioTurn ==
    LET messages == observed.pre.messages
    IN  /\ AfterTextSection
        /\ observed.pre.need_rerun
        /\ ~widgets.send_clicked
        /\ observed.prev_turn # None
        /\ observed.prev_turn[1].kind = "audio_turn"
        /\ Len(messages) >= 4
        /\ messages[Len(messages) - 3].role = "user"
        /\ messages[Len(messages) - 3].content = widgets.chat_input

\* C20: when the text T of an earlier turn is still in the text box and an
\* audio turn has just been processed, the text section appends nothing and
\* counts nothing: T is not processed a second time.
C20_StaleTextNotReplayed ==
    StaleTextAfterAudioTurn =>
        /\ session_state.messages = observed.pre.messages
        /\ session_state.conversation_stats = observed.pre.conversation_stats

====
